---- MODULE Spec2Model ----
(***************************************************************************)
(* Model of the coding-command-center server (src/server.js).              *)
(*                                                                         *)
(* Part 1: the background process supervisor                               *)
(*         (POST /api/spawn-command, GET /api/process-url/:pid,            *)
(*          POST /api/kill-process, POST /api/run-command).                *)
(* Part 2: GET /api/git-status and getGitInfo.                             *)
(* Part 3: the endpoint polling of the client (src/unnamed/part_001).      *)
(* Part 4: detectProjectType and POST /api/create-project.                 *)
(* Part 5: the client's runningProcesses and gitStatus states.             *)
(*                                                                         *)
(* Text is a sequence of tokens.  For process output the tokens are the    *)
(* character classes the endpoint pattern distinguishes:                   *)
(*   "S" the scheme "http://" (or "https://"), "L" the text "localhost:",  *)
(*   "I" the text "127.0.0.1:", "d" a decimal digit, "_" a white-space     *)
(*   character, anything else a non-space non-digit character.             *)
(***************************************************************************)
EXTENDS Integers, Sequences, FiniteSets, TLC

(***************************************************************************)
(* Bounds of the model.                                                    *)
(***************************************************************************)
\* spawn-command requests served in one run of the server
MaxSpawns == 2
\* process ids the operating system hands out (and reuses once released)
MaxPid == 2
\* output chunks delivered per spawned child (stdout and stderr together)
MaxChunks == 2

PIDS == 1..MaxPid
Children == 1..MaxSpawns

\* child.pid of a child the operating system could not start (undefined)
NoPid == 0
\* the null url / a missing table entry
NoUrl == <<>>
NoEntry == [url |-> NoUrl, command |-> "-"]

\* request bodies: command + ' ' + args.join(' ')
Commands == {"npm run dev"}

\* output chunks the children may write
ChunkTexts ==
  { <<"x", "_">>,                     \* "x ": no endpoint in it
    <<"x", "S", "x", "_">>,           \* "xhttp://x "
    <<"L", "d", "_", "I", "d">> }     \* "localhost:5 127.0.0.1:5"

VARIABLES
  serverUp,          \* the node process is running (no uncaught exception yet)
  nSpawned,          \* spawn-command requests served so far
  child,             \* per spawn-command request: the closure and its OS process
  chunkLog,          \* per child: the chunks its data events delivered, in order
  runningProcesses,  \* the process table, keyed by pid
  lastOp,            \* the response most recently sent to an HTTP caller
  run,               \* the run-command request: its child and its responses
  git,               \* a git-status request: the repository it reads, its response
  poll,              \* per script started from the UI: its endpoint polling
  project,           \* a project directory: its files, create-project, scan-library
  procUi,            \* the client's runningProcesses state and its requests in flight
  gitUi              \* the client's selectedProject and gitStatus states

procVars == <<serverUp, nSpawned, child, chunkLog, runningProcesses, lastOp, run>>
vars == <<procVars, git, poll, project, procUi, gitUi>>

(***************************************************************************)
(* The endpoint pattern                                                    *)
(*   /(https?:\/\/[^\s]+|localhost:[0-9]+|127\.0\.0\.1:[0-9]+)/            *)
(***************************************************************************)
IsSpace(t) == t = "_"
IsDigit(t) == t = "d"

\* last index of the run of non-space tokens that starts at i
NonSpaceEnd(text, i) ==
  CHOOSE j \in i..Len(text) :
    /\ \A k \in i..j : ~IsSpace(text[k])
    /\ (j = Len(text) \/ IsSpace(text[j + 1]))

\* last index of the run of digits that starts at i
DigitEnd(text, i) ==
  CHOOSE j \in i..Len(text) :
    /\ \A k \in i..j : IsDigit(text[k])
    /\ (j = Len(text) \/ ~IsDigit(text[j + 1]))

\* the match of the pattern that starts exactly at i, or <<>>
MatchAt(text, i) ==
  IF text[i] = "S" /\ i < Len(text) /\ ~IsSpace(text[i + 1])
    THEN SubSeq(text, i, NonSpaceEnd(text, i + 1))
  ELSE IF text[i] \in {"L", "I"} /\ i < Len(text) /\ IsDigit(text[i + 1])
    THEN SubSeq(text, i, DigitEnd(text, i + 1))
  ELSE <<>>

\* text.match(pattern): the leftmost match, or <<>> for null
UrlMatch(text) ==
  LET hits == {i \in 1..Len(text) : MatchAt(text, i) # <<>>}
  IN  IF hits = {} THEN <<>>
      ELSE MatchAt(text, CHOOSE i \in hits : \A k \in hits : i <= k)

\* urlMatch[1].startsWith('http') ? urlMatch[1] : 'http://' + urlMatch[1]
NormalizeUrl(m) == IF m[1] = "S" THEN m ELSE <<"S">> \o m

(***************************************************************************)
(* State after construction: const runningProcesses = {}; app.listen().    *)
(***************************************************************************)
NoChild == [st |-> "none", pid |-> NoPid, url |-> NoUrl, output |-> <<>>,
            command |-> "-", signalled |-> FALSE]

NoOp == [op |-> "none", pid |-> NoPid, status |-> 0, url |-> NoUrl,
         started |-> FALSE, tracked |-> FALSE, signalSent |-> FALSE]

\* the streams of a child
Streams == {"stdout", "stderr"}

\* no run-command request yet: wrote are the chunks the child has written to
\* each pipe, got the number of them the data listeners have received,
\* sends the number of res.json calls the listeners have made
NoRun == [st |-> "none", started |-> FALSE, code |-> 0, responses |-> <<>>,
          sends |-> 0,
          wrote |-> [s \in Streams |-> <<>>],
          got |-> [s \in Streams |-> 0],
          stdout |-> <<>>, stderr |-> <<>>]

\* scripts of the selected project that the UI can start
Scripts == {"dev", "build"}

\* a script nobody has started: the pending checkUrl call and what the
\* polling has done so far
NoPoll == [st |-> "idle", attempt |-> 0, delay |-> 0, elapsed |-> 0,
           asked |-> 0, log |-> <<>>, tracked |-> FALSE, url |-> NoUrl,
           reported |-> 0]

\* JavaScript's null (String(null) is the text "null")
Null == <<"null">>

\* a value that an if or an || takes as true: neither null nor ''
Truthy(v) == v # Null /\ v # <<>>

\* a directory without a .git directory
NoRepo == [hasGit |-> FALSE,
           head |-> [ok |-> FALSE, text |-> <<>>],
           config |-> [ok |-> FALSE, text |-> <<>>],
           statusOk |-> FALSE, listing |-> <<>>,
           fetchOk |-> FALSE, localOnly |-> 0, remoteOnly |-> 0,
           qBehind |-> "fail", qAhead |-> "fail"]

\* a directory nobody has asked about
NoGit == [repo |-> NoRepo,
          answered |-> FALSE,
          branch |-> <<>>, remote_url |-> Null, ahead |-> 0, behind |-> 0,
          modified |-> <<>>, staged |-> <<>>, untracked |-> <<>>,
          is_dirty |-> FALSE,
          commands |-> <<>>,
          scanned |-> FALSE,
          info |-> [hasGit |-> FALSE, branch |-> Null, remoteUrl |-> Null]]

\* a path at which nothing exists
NoDir == [exists |-> FALSE, files |-> {}, hasGit |-> FALSE,
          head |-> [ok |-> FALSE, text |-> <<>>],
          config |-> [ok |-> FALSE, text |-> <<>>]]

\* no create-project request and no scan yet
NoProject == [dir |-> NoDir, wasNew |-> FALSE,
              request |-> [projectType |-> "-", initGit |-> FALSE],
              response |-> [status |-> 0, project_type |-> "-", has_git |-> FALSE,
                            remote_url |-> Null, branch |-> Null],
              scanned |-> FALSE, detected |-> "-",
              info |-> [hasGit |-> FALSE, branch |-> Null, remoteUrl |-> Null]]

\* the UI after loading: no script running, nothing in flight
NoUiEntry == [present |-> FALSE, pid |-> NoPid, run |-> 0, url |-> NoUrl,
              urlRun |-> 0]

\* a handleRunScript call: its spawn request and its checkUrl closure
NoUiRun == [st |-> "none", pid |-> NoPid, attempt |-> 0, answer |-> NoUrl]

NoProcUi == [entry |-> NoUiEntry,
             runs |-> [r \in Children |-> NoUiRun],
             kill |-> [st |-> "none", ok |-> FALSE],
             removed |-> FALSE]

\* the UI after loading: no project selected, gitStatus null
NoGitUi == [selected |-> "-", gitStatus |-> "null", pending |-> {},
            issued |-> 0, failed |-> FALSE]

ProcInit ==
  /\ serverUp = TRUE
  /\ nSpawned = 0
  /\ child = [c \in Children |-> NoChild]
  /\ chunkLog = [c \in Children |-> <<>>]
  /\ runningProcesses = [p \in PIDS |-> NoEntry]
  /\ lastOp = NoOp
  /\ run = NoRun

Init ==
  /\ ProcInit
  /\ git = NoGit
  /\ poll = [k \in Scripts |-> NoPoll]
  /\ project = NoProject
  /\ procUi = NoProcUi
  /\ gitUi = NoGitUi

\* a pid names at most one process of the operating system at a time
PidInUse(p) == \E c \in Children : child[c].st = "alive" /\ child[c].pid = p

\* an 'error' event queued with process.nextTick runs before any other event
ErrorPending ==
  \/ \E c \in Children : child[c].st = "failed"
  \/ run.st = "failed"

Serving == serverUp /\ ~ErrorPending

(***************************************************************************)
(* POST /api/spawn-command                                                 *)
(***************************************************************************)
\* const child = spawn(command, args, {cwd, shell: true, ...}); the closure's
\* output = '' and url = null; res.json({ pid: child.pid })
SpawnCommand(cmd, started, p) ==
  /\ Serving
  /\ nSpawned < MaxSpawns
  /\ started => ~PidInUse(p)
  /\ ~started => p = NoPid
  /\ nSpawned' = nSpawned + 1
  /\ child' = [child EXCEPT ![nSpawned + 1] =
                 [st |-> IF started THEN "alive" ELSE "failed",
                  pid |-> p, url |-> NoUrl, output |-> <<>>,
                  command |-> cmd, signalled |-> FALSE]]
  /\ lastOp' = [NoOp EXCEPT !.op = "spawn", !.pid = p, !.status = 200,
                            !.started = started]
  /\ UNCHANGED <<serverUp, chunkLog, runningProcesses, run>>

\* the child of spawn-command has no 'error' listener: the event is thrown
\* as an uncaught exception and the server process ends
SpawnError(c) ==
  /\ serverUp
  /\ child[c].st = "failed"
  /\ serverUp' = FALSE
  /\ child' = [child EXCEPT ![c].st = "closed"]
  /\ UNCHANGED <<nSpawned, chunkLog, runningProcesses, lastOp, run>>

\* the table after runningProcesses[child.pid] = { url, command }
SetEntry(table, pid, u, cmd) ==
  [table EXCEPT ![pid] = [url |-> u, command |-> cmd]]

\* the closure's url after checkForUrl(data)
checkForUrl(oldUrl, text) ==
  IF oldUrl = NoUrl /\ UrlMatch(text) # <<>>
    THEN NormalizeUrl(UrlMatch(text))
    ELSE oldUrl

\* child.stdout.on('data', checkForUrl); child.stderr.on('data', checkForUrl)
\* The streams stay open after the process itself has ended, until 'close'.
Data(c, text) ==
  /\ Serving
  /\ child[c].st \in {"alive", "exited"}
  /\ Len(chunkLog[c]) < MaxChunks
  /\ chunkLog' = [chunkLog EXCEPT ![c] = Append(@, text)]
  /\ LET newUrl == checkForUrl(child[c].url, text) IN
       /\ child' = [child EXCEPT ![c].output = @ \o text, ![c].url = newUrl]
       /\ runningProcesses' =
            IF child[c].url = NoUrl /\ newUrl # NoUrl
              THEN SetEntry(runningProcesses, child[c].pid, newUrl, child[c].command)
              ELSE runningProcesses
  /\ UNCHANGED <<serverUp, nSpawned, lastOp, run>>

\* the operating-system process ends (by itself or by a signal) and is
\* reaped: its pid is free for reuse; 'close' follows once both streams end
Exit(c) ==
  /\ Serving
  /\ child[c].st = "alive"
  /\ child' = [child EXCEPT ![c].st = "exited"]
  /\ UNCHANGED <<serverUp, nSpawned, chunkLog, runningProcesses, lastOp, run>>

\* the table after delete runningProcesses[child.pid]
DeleteEntry(table, pid) == [table EXCEPT ![pid] = NoEntry]

\* child.on('close', () => { delete runningProcesses[child.pid]; })
Close(c) ==
  /\ Serving
  /\ child[c].st = "exited"
  /\ child' = [child EXCEPT ![c].st = "closed"]
  /\ runningProcesses' = DeleteEntry(runningProcesses, child[c].pid)
  /\ UNCHANGED <<serverUp, nSpawned, chunkLog, lastOp, run>>

(***************************************************************************)
(* GET /api/process-url/:pid                                               *)
(***************************************************************************)
\* info && info.url ? { url: info.url } : { url: null }
LookupUrl(table, pid) == table[pid].url

ProcessUrl(p) ==
  /\ Serving
  /\ lastOp' = [NoOp EXCEPT !.op = "url", !.pid = p, !.status = 200,
                            !.url = LookupUrl(runningProcesses, p),
                            !.tracked = (runningProcesses[p] # NoEntry)]
  /\ UNCHANGED <<serverUp, nSpawned, child, chunkLog, runningProcesses, run>>

(***************************************************************************)
(* POST /api/kill-process                                                  *)
(***************************************************************************)
\* process.kill(pid) delivers SIGTERM when a process with that pid exists
\* and throws (ESRCH) otherwise
KillDelivers(p) == PidInUse(p)

\* try { process.kill(pid); res.json({success: true}) }
\* catch (error) { res.status(500).json({error: error.message}) }
KillProcess(p) ==
  /\ Serving
  /\ child' = [c \in Children |->
                 IF KillDelivers(p) /\ child[c].st = "alive" /\ child[c].pid = p
                   THEN [child[c] EXCEPT !.signalled = TRUE]
                   ELSE child[c]]
  /\ lastOp' = [NoOp EXCEPT !.op = "kill", !.pid = p,
                            !.status = IF KillDelivers(p) THEN 200 ELSE 500,
                            !.tracked = (runningProcesses[p] # NoEntry),
                            !.signalSent = KillDelivers(p)]
  /\ UNCHANGED <<serverUp, nSpawned, chunkLog, runningProcesses, run>>

(***************************************************************************)
(* POST /api/run-command                                                   *)
(***************************************************************************)
\* exit codes a terminated process reports
ExitCodes == {0, 1}

\* chunks the child of a run-command request writes to one pipe
MaxRunChunks == 2
RunTexts == { <<"a">>, <<"b">> }

\* err.message of a spawn that failed
SpawnErrorMessage == <<"spawn ENOENT">>

\* all chunks of a sequence, concatenated
RECURSIVE Concat(_)
Concat(chunks) ==
  IF chunks = <<>> THEN <<>> ELSE Head(chunks) \o Concat(Tail(chunks))

\* const child = spawn(command, args, {...}); stdout = ''; stderr = ''
RunCommand(started) ==
  /\ Serving
  /\ run.st = "none"
  /\ run' = [run EXCEPT !.st = IF started THEN "running" ELSE "failed",
                        !.started = started]
  /\ UNCHANGED <<serverUp, nSpawned, child, chunkLog, runningProcesses, lastOp>>

\* child.on('error', (err) => res.status(500).json({..., exit_code: -1}))
RunError ==
  /\ serverUp
  /\ run.st = "failed"
  /\ run' = [run EXCEPT !.st = "errored",
                        !.sends = @ + 1,
                        !.responses = Append(run.responses,
                                             [status |-> 500, exit_code |-> -1,
                                              stdout |-> <<>>,
                                              stderr |-> SpawnErrorMessage])]
  /\ lastOp' = [NoOp EXCEPT !.op = "run", !.status = 500]
  /\ UNCHANGED <<serverUp, nSpawned, child, chunkLog, runningProcesses>>

\* the running child writes a chunk to one of its pipes
RunWrite(stream, text) ==
  /\ run.st = "running"
  /\ Len(run.wrote[stream]) < MaxRunChunks
  /\ run' = [run EXCEPT !.wrote[stream] = Append(@, text)]
  /\ UNCHANGED <<serverUp, nSpawned, child, chunkLog, runningProcesses, lastOp>>

\* child.stdout.on('data', (data) => { stdout += data.toString(); });
\* child.stderr.on('data', (data) => { stderr += data.toString(); });
RunData(stream) ==
  /\ Serving
  /\ run.st = "running"
  /\ run.got[stream] < Len(run.wrote[stream])
  /\ LET data == run.wrote[stream][run.got[stream] + 1]
     IN  run' = [run EXCEPT !.got[stream] = @ + 1,
                           !.stdout = IF stream = "stdout" THEN @ \o data ELSE @,
                           !.stderr = IF stream = "stderr" THEN @ \o data ELSE @]
  /\ UNCHANGED <<serverUp, nSpawned, child, chunkLog, runningProcesses, lastOp>>

\* a 'close' listener that is called as soon as the process has ended
ClosedAtExit(r) == TRUE

\* 'close' is emitted after the process has ended and its stdio streams
\* have been closed: every chunk written has reached its data listener
PipesDrained(r) == \A s \in Streams : r.got[s] = Len(r.wrote[s])

\* child.on('close', (code) => res.json({ stdout, stderr, exit_code: code }))
\* 'close' also follows the 'error' of a child that could not be started;
\* res.json on a response that was already sent throws inside the listener
RunClose(code) ==
  /\ Serving
  /\ run.st \in {"running", "errored"}
  /\ PipesDrained(run)
  /\ IF run.responses = <<>>
       THEN /\ run' = [run EXCEPT !.st = "done",
                                  !.code = code,
                                  !.sends = @ + 1,
                                  !.responses = <<[status |-> 200, exit_code |-> code,
                                                   stdout |-> run.stdout,
                                                   stderr |-> run.stderr]>>]
            /\ lastOp' = [NoOp EXCEPT !.op = "run", !.status = 200]
            /\ UNCHANGED serverUp
       ELSE /\ run' = [run EXCEPT !.st = "done", !.sends = @ + 1]
            /\ serverUp' = FALSE
            /\ UNCHANGED lastOp
  /\ UNCHANGED <<nSpawned, child, chunkLog, runningProcesses>>

(***************************************************************************)
(* The server: requests and child events in any order.                     *)
(***************************************************************************)
ProcNext ==
  \/ \E cmd \in Commands, p \in PIDS : SpawnCommand(cmd, TRUE, p)
  \/ \E cmd \in Commands : SpawnCommand(cmd, FALSE, NoPid)
  \/ \E c \in Children : SpawnError(c)
  \/ \E c \in Children, text \in ChunkTexts : Data(c, text)
  \/ \E c \in Children : Exit(c)
  \/ \E c \in Children : Close(c)
  \/ \E p \in PIDS : ProcessUrl(p)
  \/ \E p \in PIDS : KillProcess(p)
  \/ \E started \in BOOLEAN : RunCommand(started)
  \/ RunError
  \/ \E code \in ExitCodes : RunClose(code)

Next == ProcNext /\ UNCHANGED <<git, poll, project, procUi, gitUi>>

Spec == Init /\ [][Next]_vars

(***************************************************************************)
(* Claims about the process supervisor.                                    *)
(***************************************************************************)
\* index of the first chunk of a log that contains a match (0: none does)
FirstHit(log) ==
  IF \E i \in 1..Len(log) : UrlMatch(log[i]) # <<>>
    THEN CHOOSE i \in 1..Len(log) :
           /\ UrlMatch(log[i]) # <<>>
           /\ \A k \in 1..(i - 1) : UrlMatch(log[k]) = <<>>
    ELSE 0

\* the endpoint derived from the first chunk of a log that contains a match
FirstEndpoint(log) ==
  IF FirstHit(log) = 0 THEN NoUrl ELSE NormalizeUrl(UrlMatch(log[FirstHit(log)]))

\* C1: for every spawned process, while it is alive, a lookup of its pid
\* returns absent before any chunk with a match has been processed, and
\* afterwards the value derived from the first such chunk, whatever later
\* chunks contain.
C1_FirstMatchWins ==
  \A c \in Children :
    child[c].st = "alive" =>
      LookupUrl(runningProcesses, child[c].pid) = FirstEndpoint(chunkLog[c])

\* C2: in every state after a spawned process has terminated, a lookup of
\* its pid returns absent and a terminate of its pid returns NotFound, as
\* for an id that was never spawned.
C2_TerminatedIsUnknown ==
  \A c \in Children :
    child[c].st \in {"exited", "closed"} /\ child[c].pid # NoPid =>
      /\ LookupUrl(runningProcesses, child[c].pid) = NoUrl
      /\ ~KillDelivers(child[c].pid)

\* C3: for a spawned process whose endpoint has been detected, once a
\* terminate of its pid has returned success, every later lookup of that
\* pid returns absent.
C3_AbsentAfterTerminate ==
  (/\ lastOp.op = "url"
   /\ \E c \in Children :
        /\ child[c].pid = lastOp.pid
        /\ child[c].url # NoUrl
        /\ child[c].signalled)
  => lastOp.url = NoUrl

\* C4: terminate returns NotFound and sends no signal whenever the pid is
\* not a key of the process table at the time of the call, and returns
\* success only for a pid that is a key of it.
C4_TerminateOnlyTracked ==
  lastOp.op = "kill" =>
    /\ ~lastOp.tracked => (lastOp.status # 200 /\ ~lastOp.signalSent)
    /\ lastOp.status = 200 => lastOp.tracked

\* C5: the process table has an entry for exactly the spawned processes
\* whose termination has not yet been observed (from spawn until close).
C5_TableIsLiveSet ==
  \A p \in PIDS :
    (runningProcesses[p] # NoEntry)
      <=> (\E c \in Children :
             child[c].pid = p /\ child[c].st \in {"alive", "exited"})

\* C6: when the operating system cannot start the process, spawn reports
\* an explicit failure to its caller and run reports a tool-invocation
\* failure to its caller; the failure is never dropped or left unhandled.
C6_StartFailureReported ==
  /\ (lastOp.op = "spawn" /\ ~lastOp.started) => lastOp.status >= 400
  /\ run.st = "errored" =>
       run.responses = <<[status |-> 500, exit_code |-> -1,
                          stdout |-> <<>>, stderr |-> SpawnErrorMessage]>>
  /\ \A c \in Children :
       (child[c].st = "closed" /\ child[c].pid = NoPid) => serverUp

(***************************************************************************)
(* GET /api/git-status: the porcelain status parser.                       *)
(*                                                                         *)
(* Here text is a sequence of characters; "NL" is the line feed.           *)
(***************************************************************************)
\* lines in one status output
MaxLines == 2

\* repository-relative paths of the working tree
Paths == { <<"s", "r", "c">>, <<"r", "c">>, <<"l", "i", "b">> }

\* two-character codes of the short-format status output
StatusCodes ==
  { <<" ", "M">>, <<" ", "D">>, <<"M", " ">>, <<"M", "M">>, <<"A", " ">>,
    <<"A", "M">>, <<"D", " ">>, <<"R", " ">>, <<"?", "?">> }

\* one entry of the status output: its code and its path
StatusEntries == [code : StatusCodes, path : Paths]

\* the outputs of `git status --porcelain`: at most MaxLines entries, no
\* path listed twice
StatusListings ==
  { l \in UNION { [1..n -> StatusEntries] : n \in 0..MaxLines } :
      \A i, k \in 1..Len(l) : i # k => l[i].path # l[k].path }

\* the text of an entry: "XY path\n"
EntryText(e) == e.code \o <<" ">> \o e.path \o <<"NL">>

RECURSIVE ListingText(_)
ListingText(l) ==
  IF l = <<>> THEN <<>> ELSE EntryText(Head(l)) \o ListingText(Tail(l))

\* String.prototype.trim
IsWhite(ch) == ch \in {" ", "TAB", "NL"}

Trim(str) ==
  LET solid == {i \in 1..Len(str) : ~IsWhite(str[i])}
  IN  IF solid = {} THEN <<>>
      ELSE SubSeq(str, CHOOSE i \in solid : \A k \in solid : i <= k,
                       CHOOSE i \in solid : \A k \in solid : k <= i)

\* str.split('\n')
RECURSIVE SplitLines(_)
SplitLines(str) ==
  LET breaks == {i \in 1..Len(str) : str[i] = "NL"}
  IN  IF breaks = {} THEN <<str>>
      ELSE LET b == CHOOSE i \in breaks : \A k \in breaks : i <= k
           IN  <<SubSeq(str, 1, b - 1)>> \o SplitLines(SubSeq(str, b + 1, Len(str)))

\* lines.filter(l => l)
NonEmpty(lines) == SelectSeq(lines, LAMBDA l : l # <<>>)

\* statusOutput.trim().split('\n').filter(l => l)
StatusLines(statusOutput) == NonEmpty(SplitLines(Trim(statusOutput)))

\* line.substring(from, to), indices counted from 0
Substring(line, from, to) ==
  SubSeq(line, from + 1, IF to < Len(line) THEN to ELSE Len(line))

\* str[i], counted from 0
CharAt(str, i) == IF i < Len(str) THEN str[i + 1] ELSE "undefined"

\* const indexStatus = line.substring(0, 2)
IndexStatus(line) == Substring(line, 0, 2)

\* const filePath = line.substring(3).trim()
FilePath(line) == Trim(Substring(line, 3, Len(line)))

\* indexStatus[0] === '?' || indexStatus[0] === 'A'
GoesToUntracked(line) ==
  CharAt(IndexStatus(line), 0) = "?" \/ CharAt(IndexStatus(line), 0) = "A"

\* else if (indexStatus[0] !== ' ')
GoesToStaged(line) ==
  ~GoesToUntracked(line) /\ CharAt(IndexStatus(line), 0) # " "

\* indexStatus[1] === 'M' || indexStatus[1] === 'D', else
\* indexStatus[0] !== ' ' && indexStatus[0] !== '?'
GoesToModified(line) ==
  \/ CharAt(IndexStatus(line), 1) \in {"M", "D"}
  \/ (CharAt(IndexStatus(line), 0) # " " /\ CharAt(IndexStatus(line), 0) # "?")

\* the three arrays after the loop over the lines
RECURSIVE ParseStatus(_, _)
ParseStatus(lines, acc) ==
  IF lines = <<>> THEN acc
  ELSE LET line == Head(lines)
           path == FilePath(line)
       IN  ParseStatus(Tail(lines),
             [untracked |-> IF GoesToUntracked(line)
                              THEN Append(acc.untracked, path) ELSE acc.untracked,
              staged    |-> IF GoesToStaged(line)
                              THEN Append(acc.staged, path) ELSE acc.staged,
              modified  |-> IF GoesToModified(line)
                              THEN Append(acc.modified, path) ELSE acc.modified])

NoChanges == [untracked |-> <<>>, staged |-> <<>>, modified |-> <<>>]

\* const statusOutput = execSync('git status --porcelain', ...)
StatusOutput(repo) == ListingText(repo.listing)

(***************************************************************************)
(* The .git/HEAD and .git/config readers (getGitInfo and git-status hold   *)
(* the same statements).  "P" is the text "ref: refs/heads/", "H" the text *)
(* [remote "origin"], "G" another section header, "K" the text "url =".    *)
(***************************************************************************)
\* str.startsWith(pat)
StartsWith(str, pat) ==
  Len(str) >= Len(pat) /\ SubSeq(str, 1, Len(pat)) = pat

\* str.replace(pat, ''): the first occurrence of pat is removed
RemoveFirst(str, pat) ==
  LET at == {i \in 1..(Len(str) - Len(pat) + 1) :
               SubSeq(str, i, i + Len(pat) - 1) = pat}
  IN  IF at = {} THEN str
      ELSE LET i == CHOOSE k \in at : \A m \in at : k <= m
           IN  SubSeq(str, 1, i - 1) \o SubSeq(str, i + Len(pat), Len(str))

RefPrefix == <<"P">>
OriginHeader == <<"H">>
UrlKey == <<"K", " ">>

\* a HEAD reader that does not trim what it read
ParseHeadRaw(text) ==
  IF StartsWith(text, RefPrefix) THEN RemoveFirst(text, RefPrefix) ELSE text

\* head = readFileSync(HEAD).trim();
\* head.startsWith('ref: refs/heads/') ? head.replace('ref: refs/heads/', '') : head
ParseHead(text) ==
  LET head == Trim(text)
  IN  IF StartsWith(head, RefPrefix) THEN RemoveFirst(head, RefPrefix) ELSE head

\* let branch = null; try { ... } catch (e) {}
ReadBranch(file) == IF file.ok THEN ParseHead(file.text) ELSE Null

\* a scan that takes the first url line of any section
RECURSIVE ScanConfigAnySection(_, _)
ScanConfigAnySection(lines, inOrigin) ==
  IF lines = <<>> THEN Null
  ELSE LET t == Trim(Head(lines))
       IN  IF StartsWith(t, UrlKey) THEN RemoveFirst(t, UrlKey)
           ELSE ScanConfigAnySection(Tail(lines), inOrigin)

\* for (const line of lines) { if (line.trim() === '[remote "origin"]') inOrigin = true;
\*   else if (inOrigin && line.trim().startsWith('url = ')) { remoteUrl = ...; break; } }
RECURSIVE ScanConfig(_, _)
ScanConfig(lines, inOrigin) ==
  IF lines = <<>> THEN Null
  ELSE LET t == Trim(Head(lines))
       IN  IF t = OriginHeader THEN ScanConfig(Tail(lines), TRUE)
           ELSE IF inOrigin /\ StartsWith(t, UrlKey) THEN RemoveFirst(t, UrlKey)
           ELSE ScanConfig(Tail(lines), inOrigin)

\* let remoteUrl = null; try { config.split('\n') ... } catch (e) {}
ReadRemoteUrl(file) ==
  IF file.ok THEN ScanConfig(SplitLines(file.text), FALSE) ELSE Null

\* getGitInfo(dirPath)
getGitInfo(repo) ==
  IF ~repo.hasGit
    THEN [hasGit |-> FALSE, branch |-> Null, remoteUrl |-> Null]
    ELSE [hasGit |-> TRUE, branch |-> ReadBranch(repo.head),
          remoteUrl |-> ReadRemoteUrl(repo.config)]

(***************************************************************************)
(* Divergence: git fetch origin and the two git rev-list --count queries.  *)
(***************************************************************************)
\* commits on one side only, in the repositories of the model
MaxCommits == 2

DigitChars == <<"0", "1", "2", "3", "4", "5", "6", "7", "8", "9">>
IsDigitChar(ch) == \E i \in 1..Len(DigitChars) : DigitChars[i] = ch
DigitValue(ch) == (CHOOSE i \in 1..Len(DigitChars) : DigitChars[i] = ch) - 1

\* the decimal text git prints for a count
RECURSIVE DecimalText(_)
DecimalText(n) ==
  IF n < Len(DigitChars) THEN <<DigitChars[n + 1]>>
  ELSE DecimalText(n \div Len(DigitChars)) \o <<DigitChars[(n % Len(DigitChars)) + 1]>>

\* the value of the digits at the start of str (NaN is given as -1)
RECURSIVE LeadingNumber(_, _)
LeadingNumber(str, acc) ==
  IF str = <<>> \/ ~IsDigitChar(Head(str)) THEN acc
  ELSE LeadingNumber(Tail(str),
                     (IF acc < 0 THEN 0 ELSE acc) * Len(DigitChars) + DigitValue(Head(str)))

\* parseInt(output.trim()) || 0
ParseIntOr0(output) ==
  LET n == LeadingNumber(Trim(output), -1) IN IF n < 0 THEN 0 ELSE n

\* `HEAD..origin/${branch}` and `origin/${branch}..HEAD`
BehindRange(branch) == <<"HEAD", "..", "origin/">> \o branch
AheadRange(branch) == <<"origin/">> \o branch \o <<"..", "HEAD">>

\* git rev-list --count <range>: the commits reachable from the right side
\* of the range and not from its left side; the command may fail, or print
\* something that is no number
RevList(repo, range) ==
  LET remoteSide == Head(range) = "HEAD"
      kind == IF remoteSide THEN repo.qBehind ELSE repo.qAhead
      count == IF remoteSide THEN repo.remoteOnly ELSE repo.localOnly
  IN  [ok |-> kind # "fail",
       text |-> IF kind = "ok" THEN DecimalText(count) \o <<"NL">>
                ELSE <<"x", "NL">>]

\* a count after try { parseInt(execSync(...).trim()) || 0 } catch (e) {}
CountOf(result) == IF result.ok THEN ParseIntOr0(result.text) ELSE 0

\* the commands a request runs, in order
Ran(cmd, range) == [cmd |-> cmd, range |-> range]

\* a dirtiness that looks at the tracked files only
IsDirtyTracked(found) ==
  Len(found.modified) > 0 \/ Len(found.staged) > 0

\* modified.length > 0 || staged.length > 0 || untracked.length > 0
IsDirty(found) ==
  Len(found.modified) > 0 \/ Len(found.staged) > 0 \/ Len(found.untracked) > 0

\* a status step that parses whatever the failed command printed
StatusStepUncaught(repo) ==
  ParseStatus(StatusLines(StatusOutput(repo)), NoChanges)

\* the status step: a status command that throws leaves the arrays empty
StatusStep(repo) ==
  IF repo.statusOk
    THEN ParseStatus(StatusLines(StatusOutput(repo)), NoChanges)
    ELSE NoChanges

\* the remote step is entered: if (remoteUrl)
TriesRemote(remoteUrl) == Truthy(remoteUrl)

\* range queries that follow the fetch whatever its outcome
FetchedUnchecked(repo, remoteUrl) == TriesRemote(remoteUrl)

\* the range queries are reached: git fetch origin did not throw
Fetched(repo, remoteUrl) == TriesRemote(remoteUrl) /\ repo.fetchOk

\* a behind count that is lost with a failing ahead query
BehindOfJoint(repo, branch, remoteUrl) ==
  IF Fetched(repo, remoteUrl) /\ RevList(repo, AheadRange(branch)).ok
    THEN CountOf(RevList(repo, BehindRange(branch)))
    ELSE 0

\* behind = parseInt(<HEAD..origin/branch>) || 0
BehindOf(repo, branch, remoteUrl) ==
  IF Fetched(repo, remoteUrl) THEN CountOf(RevList(repo, BehindRange(branch))) ELSE 0

\* an ahead count fed by the other range
AheadOfSwapped(repo, branch, remoteUrl) ==
  IF Fetched(repo, remoteUrl) THEN CountOf(RevList(repo, BehindRange(branch))) ELSE 0

\* ahead = parseInt(<origin/branch..HEAD>) || 0
AheadOf(repo, branch, remoteUrl) ==
  IF Fetched(repo, remoteUrl) THEN CountOf(RevList(repo, AheadRange(branch))) ELSE 0

\* the commands of one request with a .git directory
CommandsOf(repo, branch, remoteUrl) ==
  <<Ran("status", <<>>)>>
  \o (IF TriesRemote(remoteUrl) THEN <<Ran("fetch", <<>>)>> ELSE <<>>)
  \o (IF Fetched(repo, remoteUrl)
        THEN <<Ran("rev-list", BehindRange(branch)), Ran("rev-list", AheadRange(branch))>>
        ELSE <<>>)

\* a handler without the early return for a directory without .git
GitStatusResponseNoReturn(repo) ==
  LET branch == ReadBranch(repo.head)
      remoteUrl == ReadRemoteUrl(repo.config)
      found == StatusStep(repo)
  IN  [branch |-> IF Truthy(branch) THEN branch ELSE <<"main">>,
       ahead |-> AheadOf(repo, branch, remoteUrl),
       behind |-> BehindOf(repo, branch, remoteUrl),
       modified |-> found.modified,
       staged |-> found.staged,
       untracked |-> found.untracked,
       is_dirty |-> IsDirty(found),
       remote_url |-> remoteUrl,
       commands |-> CommandsOf(repo, branch, remoteUrl)]

\* the body of the response: res.json({...})
GitStatusResponse(repo) ==
  IF ~repo.hasGit
    THEN [branch |-> <<>>, ahead |-> 0, behind |-> 0,
          modified |-> <<>>, staged |-> <<>>, untracked |-> <<>>,
          is_dirty |-> FALSE, remote_url |-> Null, commands |-> <<>>]
    ELSE LET branch == ReadBranch(repo.head)
             remoteUrl == ReadRemoteUrl(repo.config)
             found == StatusStep(repo)
         IN  [branch |-> IF Truthy(branch) THEN branch ELSE <<"main">>,
              ahead |-> AheadOf(repo, branch, remoteUrl),
              behind |-> BehindOf(repo, branch, remoteUrl),
              modified |-> found.modified,
              staged |-> found.staged,
              untracked |-> found.untracked,
              is_dirty |-> IsDirty(found),
              remote_url |-> remoteUrl,
              commands |-> CommandsOf(repo, branch, remoteUrl)]

(***************************************************************************)
(* The directories a request may find.                                     *)
(***************************************************************************)
\* HEAD of a checked-out branch: "ref: refs/heads/m\n"
BranchHead == [ok |-> TRUE, text |-> <<"P", "m", "NL">>]
\* HEAD of a detached checkout: "5\n"
DetachedHead == [ok |-> TRUE, text |-> <<"5", "NL">>]
Unreadable == [ok |-> FALSE, text |-> <<>>]

\* a config with an origin: '[core]\n\tx\n[remote "origin"]\n\turl = u\n'
OriginConfig ==
  [ok |-> TRUE,
   text |-> <<"G", "NL", "TAB", "x", "NL", "H", "NL", "TAB", "K", " ", "u", "NL">>]
\* a config without remote: '[core]\n\tx\n'
LocalConfig == [ok |-> TRUE, text |-> <<"G", "NL", "TAB", "x", "NL">>]

\* a clean clone of a repository with an origin
CleanClone ==
  [hasGit |-> TRUE, head |-> BranchHead, config |-> OriginConfig,
   statusOk |-> TRUE, listing |-> <<>>,
   fetchOk |-> TRUE, localOnly |-> 0, remoteOnly |-> 0,
   qBehind |-> "ok", qAhead |-> "ok"]

\* the repositories a request may find: no .git directory, a status command
\* that fails, or a working tree with the listed changes
Repos ==
  {[CleanClone EXCEPT !.listing = l] : l \in StatusListings}
  \cup {[CleanClone EXCEPT !.statusOk = FALSE], NoRepo}

GitInit ==
  /\ ProcInit
  /\ git \in {[NoGit EXCEPT !.repo = r] : r \in Repos}
  /\ poll = [k \in Scripts |-> NoPoll]
  /\ project = NoProject
  /\ procUi = NoProcUi
  /\ gitUi = NoGitUi

\* GET /api/git-status
GitStatus ==
  /\ ~git.answered
  /\ LET r == GitStatusResponse(git.repo)
     IN  git' = [git EXCEPT !.answered = TRUE,
                            !.branch = r.branch,
                            !.remote_url = r.remote_url,
                            !.ahead = r.ahead,
                            !.behind = r.behind,
                            !.modified = r.modified,
                            !.staged = r.staged,
                            !.untracked = r.untracked,
                            !.is_dirty = r.is_dirty,
                            !.commands = r.commands]
  /\ UNCHANGED <<procVars, poll, project, procUi, gitUi>>

\* const gitInfo = getGitInfo(dirPath), as GET /api/scan-library calls it
ScanLibrary ==
  /\ ~git.scanned
  /\ git' = [git EXCEPT !.scanned = TRUE, !.info = getGitInfo(git.repo)]
  /\ UNCHANGED <<procVars, poll, project, procUi, gitUi>>

SpecGit == GitInit /\ [][GitStatus]_vars

(***************************************************************************)
(* Claims about the status parser.                                         *)
(***************************************************************************)
\* x is an element of the array
InArray(x, arr) == \E i \in 1..Len(arr) : arr[i] = x

\* how often x occurs in the array
Occurrences(x, arr) == Cardinality({i \in 1..Len(arr) : arr[i] = x})

\* the request was answered from the output of the status command
Parsed == git.answered /\ git.repo.hasGit /\ git.repo.statusOk

\* C7: for every line of a status output whose code is a space followed by
\* M or by D, the complete path is an element of modified and not of
\* staged, wherever the line stands in the output.
C7_WorktreeChangeIsModified ==
  Parsed =>
    \A i \in 1..Len(git.repo.listing) :
      LET e == git.repo.listing[i] IN
        (e.code[1] = " " /\ e.code[2] \in {"M", "D"}) =>
          InArray(e.path, git.modified) /\ ~InArray(e.path, git.staged)

\* C8: for every line whose first character is neither a space nor '?' the
\* path is an element of staged and not of untracked; a path is an element
\* of untracked only when the first character of its line is '?'.
C8_IndexChangeIsStaged ==
  Parsed =>
    /\ \A i \in 1..Len(git.repo.listing) :
         LET e == git.repo.listing[i] IN
           e.code[1] \notin {" ", "?"} =>
             InArray(e.path, git.staged) /\ ~InArray(e.path, git.untracked)
    /\ \A k \in 1..Len(git.untracked) :
         \E i \in 1..Len(git.repo.listing) :
           /\ git.repo.listing[i].path = git.untracked[k]
           /\ git.repo.listing[i].code[1] = "?"

\* C9: for every line with code '??' the path is an element of untracked
\* and of neither modified nor staged.
C9_UntrackedOnly ==
  Parsed =>
    \A i \in 1..Len(git.repo.listing) :
      LET e == git.repo.listing[i] IN
        e.code = <<"?", "?">> =>
          /\ InArray(e.path, git.untracked)
          /\ ~InArray(e.path, git.modified)
          /\ ~InArray(e.path, git.staged)

\* C10: for every line the path is an element of modified if and only if
\* the second character is M or D or the first character is neither a
\* space nor '?', and no line adds its path to modified more than once.
C10_ModifiedExactly ==
  Parsed =>
    \A i \in 1..Len(git.repo.listing) :
      LET e == git.repo.listing[i] IN
        /\ InArray(e.path, git.modified)
             <=> (e.code[2] \in {"M", "D"} \/ e.code[1] \notin {" ", "?"})
        /\ Occurrences(e.path, git.modified) <= 1

(***************************************************************************)
(* GET /api/git-status over every combination of what the steps of one     *)
(* request can meet: HEAD and config readable or not, the status command   *)
(* failing, the fetch failing, each range query failing or printing no     *)
(* number.  A directory without .git has no HEAD and no config, but may    *)
(* lie inside another working tree, so that the git commands would work.   *)
(***************************************************************************)
\* the outcomes of one range query
QueryKinds == {"ok", "fail", "garbage"}

\* status outputs of at most one line
SnapListings ==
  {<<>>} \cup {<<[code |-> c, path |-> <<"l", "i", "b">>]>> : c \in StatusCodes}

SnapRepos ==
  { r \in [hasGit : BOOLEAN,
           head : {BranchHead, DetachedHead, Unreadable},
           config : {OriginConfig, LocalConfig, Unreadable},
           statusOk : BOOLEAN,
           listing : SnapListings,
           fetchOk : BOOLEAN,
           localOnly : 0..MaxCommits,
           remoteOnly : 0..MaxCommits,
           qBehind : QueryKinds,
           qAhead : QueryKinds] :
      ~r.hasGit => (r.head = Unreadable /\ r.config = Unreadable) }

SnapInit ==
  /\ ProcInit
  /\ git \in {[NoGit EXCEPT !.repo = r] : r \in SnapRepos}
  /\ poll = [k \in Scripts |-> NoPoll]
  /\ project = NoProject
  /\ procUi = NoProcUi
  /\ gitUi = NoGitUi

SpecSnap == SnapInit /\ [][GitStatus]_vars

(***************************************************************************)
(* Claims about the snapshot of GET /api/git-status.                       *)
(***************************************************************************)
\* a range query is among the commands the request ran
RanRevList == \E i \in 1..Len(git.commands) : git.commands[i].cmd = "rev-list"

\* the command is among the commands the request ran
DidRun(c) == \E i \in 1..Len(git.commands) : git.commands[i] = c

\* the request met a repository whose config names an origin URL
OriginAnswered ==
  git.answered /\ git.repo.hasGit /\ git.repo.config = OriginConfig

\* C11: when git fetch origin fails for a repository with an origin URL, the
\* answer has ahead = 0 and behind = 0, no range query was run, and branch,
\* remote_url, modified, staged and untracked are what the same repository
\* gives when the fetch succeeds; the request is answered.
C11_FetchFailureDegrades ==
  (OriginAnswered /\ ~git.repo.fetchOk) =>
    LET fetched == GitStatusResponse([git.repo EXCEPT !.fetchOk = TRUE])
    IN  /\ git.ahead = 0
        /\ git.behind = 0
        /\ ~RanRevList
        /\ DidRun(Ran("fetch", <<>>))
        /\ git.branch = fetched.branch
        /\ git.remote_url = fetched.remote_url
        /\ git.modified = fetched.modified
        /\ git.staged = fetched.staged
        /\ git.untracked = fetched.untracked

C11_Witness ==
  /\ OriginAnswered
  /\ ~git.repo.fetchOk
  /\ git.repo.qAhead = "ok" /\ git.repo.localOnly = MaxCommits
  /\ git.repo.statusOk /\ git.repo.listing # <<>>
  /\ git.repo.head = BranchHead
  /\ git.ahead = 0 /\ git.branch = <<"m">> /\ git.remote_url = <<"u">>

\* C12: after a successful fetch the two counts are independent: when
\* exactly one range query fails its count is 0 and the other count is the
\* number the other query printed; output that is no number gives 0 for
\* that count only.
C12_CountsIndependent ==
  (OriginAnswered /\ git.repo.fetchOk) =>
    /\ (git.repo.qBehind = "fail" /\ git.repo.qAhead = "ok") =>
         (git.behind = 0 /\ git.ahead = git.repo.localOnly)
    /\ (git.repo.qAhead = "fail" /\ git.repo.qBehind = "ok") =>
         (git.ahead = 0 /\ git.behind = git.repo.remoteOnly)
    /\ (git.repo.qBehind = "garbage") =>
         (git.behind = 0 /\ (git.repo.qAhead = "ok" => git.ahead = git.repo.localOnly))
    /\ (git.repo.qAhead = "garbage") =>
         (git.ahead = 0 /\ (git.repo.qBehind = "ok" => git.behind = git.repo.remoteOnly))

C12_Witness ==
  /\ OriginAnswered
  /\ git.repo.fetchOk
  /\ git.repo.qBehind = "fail" /\ git.repo.remoteOnly = MaxCommits
  /\ git.repo.qAhead = "ok" /\ git.repo.localOnly = MaxCommits
  /\ git.behind = 0 /\ git.ahead = MaxCommits

\* C13: ahead is the count of origin/<branch>..HEAD (commits of the local
\* HEAD that the remote tracking branch lacks) and behind the count of
\* HEAD..origin/<branch> (commits of the remote tracking branch that HEAD
\* lacks), whenever the query printed its count; both are never negative.
C13_AheadBehindRanges ==
  git.answered =>
    /\ git.ahead >= 0
    /\ git.behind >= 0
    /\ (OriginAnswered /\ git.repo.fetchOk /\ git.repo.qAhead = "ok") =>
         /\ git.ahead = git.repo.localOnly
         /\ git.repo.head = BranchHead =>
              DidRun(Ran("rev-list", <<"origin/", "m", "..", "HEAD">>))
    /\ (OriginAnswered /\ git.repo.fetchOk /\ git.repo.qBehind = "ok") =>
         /\ git.behind = git.repo.remoteOnly
         /\ git.repo.head = BranchHead =>
              DidRun(Ran("rev-list", <<"HEAD", "..", "origin/", "m">>))

C13_Witness ==
  /\ OriginAnswered
  /\ git.repo.fetchOk
  /\ git.repo.head = BranchHead
  /\ git.repo.qAhead = "ok" /\ git.repo.qBehind = "ok"
  /\ git.repo.localOnly = MaxCommits /\ git.repo.remoteOnly = MaxCommits - 1
  /\ git.ahead = MaxCommits /\ git.behind = MaxCommits - 1

\* C14: when the status command fails, modified, staged and untracked are
\* empty and the answer is still given, with the branch and remote_url of
\* the same repository whose status command works; with a remote URL the
\* fetch is still run, and after it the two range queries.
C14_StatusFailureNonFatal ==
  (git.answered /\ git.repo.hasGit /\ ~git.repo.statusOk) =>
    LET listed == GitStatusResponse([git.repo EXCEPT !.statusOk = TRUE])
    IN  /\ git.modified = <<>>
        /\ git.staged = <<>>
        /\ git.untracked = <<>>
        /\ git.branch = listed.branch
        /\ git.remote_url = listed.remote_url
        /\ git.repo.config = OriginConfig =>
             /\ git.remote_url = <<"u">>
             /\ DidRun(Ran("fetch", <<>>))
             /\ git.repo.fetchOk => RanRevList
             /\ git.ahead = listed.ahead
             /\ git.behind = listed.behind

C14_Witness ==
  /\ OriginAnswered
  /\ ~git.repo.statusOk
  /\ git.repo.listing # <<>>
  /\ git.repo.fetchOk
  /\ git.repo.qAhead = "ok" /\ git.repo.localOnly = MaxCommits
  /\ git.modified = <<>> /\ git.staged = <<>> /\ git.untracked = <<>>
  /\ git.ahead = MaxCommits
  /\ RanRevList

\* C15: for a directory without .git the answer is branch "", no
\* remote_url, ahead 0, behind 0, empty modified, staged and untracked and
\* is_dirty false, and no status, fetch or range command was run.
C15_NoRepositoryDefaults ==
  (git.answered /\ ~git.repo.hasGit) =>
    /\ git.branch = <<>>
    /\ git.remote_url = Null
    /\ git.ahead = 0
    /\ git.behind = 0
    /\ git.modified = <<>>
    /\ git.staged = <<>>
    /\ git.untracked = <<>>
    /\ ~git.is_dirty
    /\ git.commands = <<>>

C15_Witness ==
  /\ git.answered
  /\ ~git.repo.hasGit
  /\ git.repo.statusOk /\ git.repo.listing # <<>>
  /\ git.repo.fetchOk /\ git.repo.localOnly = MaxCommits
  /\ git.branch = <<>> /\ git.commands = <<>> /\ ~git.is_dirty

\* C20: in every answer is_dirty is true exactly when modified, staged or
\* untracked is not empty.
C20_DirtyIffAnyChange ==
  git.answered =>
    (git.is_dirty <=>
       (git.modified # <<>> \/ git.staged # <<>> \/ git.untracked # <<>>))

C20_Witness ==
  /\ git.answered
  /\ git.is_dirty
  /\ git.modified = <<>> /\ git.staged = <<>>
  /\ Len(git.untracked) = MaxLines

(***************************************************************************)
(* The metadata readers over every HEAD content and every config content   *)
(* of a small alphabet: getGitInfo (as scan-library calls it) and the same *)
(* statements in GET /api/git-status.                                      *)
(***************************************************************************)
\* characters in one HEAD file
MaxHeadLen == 3
\* lines in one config file
MaxConfigLines == 3

HeadChars == {"P", "m", "/", " ", "NL"}

HeadTexts == UNION { [1..n -> HeadChars] : n \in 0..MaxHeadLen }

\* lines of a config file: the origin header, another header, url lines
\* with and without a value, another key
ConfigLines ==
  { <<"H">>, <<"G">>, <<"TAB", "K", " ", "u">>, <<"K", " ", "v">>,
    <<"TAB", "K", " ">>, <<"TAB", "x">> }

RECURSIVE JoinLines(_)
JoinLines(lines) ==
  IF lines = <<>> THEN <<>> ELSE Head(lines) \o <<"NL">> \o JoinLines(Tail(lines))

ConfigTexts ==
  { JoinLines(ls) : ls \in UNION { [1..n -> ConfigLines] : n \in 0..MaxConfigLines } }

MetaRepos ==
  {[CleanClone EXCEPT !.head = [ok |-> TRUE, text |-> t]] : t \in HeadTexts}
  \cup {[CleanClone EXCEPT !.config = [ok |-> TRUE, text |-> t]] : t \in ConfigTexts}
  \cup {[CleanClone EXCEPT !.head = Unreadable], [CleanClone EXCEPT !.config = Unreadable]}

MetaInit ==
  /\ ProcInit
  /\ git \in {[NoGit EXCEPT !.repo = r] : r \in MetaRepos}
  /\ poll = [k \in Scripts |-> NoPoll]
  /\ project = NoProject
  /\ procUi = NoProcUi
  /\ gitUi = NoGitUi

MetaNext == GitStatus \/ ScanLibrary

SpecMeta == MetaInit /\ [][MetaNext]_vars

(***************************************************************************)
(* Claims about the metadata readers.                                      *)
(***************************************************************************)
\* str without its first n characters
Remainder(str, n) == SubSeq(str, n + 1, Len(str))

\* C16 as stated: a HEAD content that begins with 'ref: refs/heads/' gives
\* the trimmed remainder after the prefix as branch, any other content is
\* the branch verbatim, in getGitInfo and in the git-status answer alike.
C16_BranchFromHead ==
  LET text == git.repo.head.text
      stated == IF StartsWith(text, RefPrefix)
                  THEN Trim(Remainder(text, Len(RefPrefix)))
                  ELSE text
  IN  (git.repo.hasGit /\ git.repo.head.ok) =>
        /\ git.scanned => git.info.branch = stated
        /\ git.answered => git.branch = stated

\* C16 amended: the HEAD content is trimmed first; when the trimmed content
\* begins with 'ref: refs/heads/' the branch is what follows the prefix,
\* otherwise it is the trimmed content; getGitInfo returns this branch, the
\* git-status answer returns it too unless it is empty, and 'main' then.
C16_BranchFromTrimmedHead ==
  LET head == Trim(git.repo.head.text)
      stated == IF StartsWith(head, RefPrefix)
                  THEN Remainder(head, Len(RefPrefix))
                  ELSE head
  IN  (git.repo.hasGit /\ git.repo.head.ok) =>
        /\ git.scanned => git.info.branch = stated
        /\ git.answered => git.branch = (IF stated = <<>> THEN <<"main">> ELSE stated)

C16_Witness ==
  /\ git.scanned /\ git.answered
  /\ git.repo.head = [ok |-> TRUE, text |-> <<"m", "/", "NL">>]
  /\ git.info.branch = <<"m", "/">>
  /\ git.branch = <<"m", "/">>

\* C17: remote_url is what follows 'url = ' in the first trimmed line that
\* starts with 'url = ' and comes after a line whose trimmed text is
\* [remote "origin"]; url lines before that header do not count; it is
\* absent when the config is unreadable, has no such header, or has no url
\* line after it.  getGitInfo and the git-status answer agree on it.
C17_RemoteUrlFromOrigin ==
  LET lines == SplitLines(git.repo.config.text)
      trimmed(i) == Trim(lines[i])
      headers == {i \in 1..Len(lines) : trimmed(i) = OriginHeader}
      urls == {j \in 1..Len(lines) :
                 /\ StartsWith(trimmed(j), UrlKey)
                 /\ \E i \in headers : i < j}
      stated == IF ~git.repo.config.ok \/ urls = {} THEN Null
                ELSE Remainder(trimmed(CHOOSE j \in urls : \A k \in urls : j <= k),
                               Len(UrlKey))
  IN  git.repo.hasGit =>
        /\ git.scanned => git.info.remoteUrl = stated
        /\ git.answered => git.remote_url = stated

C17_Witness ==
  /\ git.scanned /\ git.answered
  /\ git.repo.config.text =
       JoinLines(<< <<"K", " ", "v">>, <<"H">>, <<"TAB", "K", " ", "u">> >>)
  /\ git.info.remoteUrl = <<"u">>
  /\ git.remote_url = <<"u">>

(***************************************************************************)
(* POST /api/run-command with a child that writes to its pipes.            *)
(***************************************************************************)
RunNext ==
  /\ \/ \E started \in BOOLEAN : RunCommand(started)
     \/ \E stream \in Streams, text \in RunTexts : RunWrite(stream, text)
     \/ \E stream \in Streams : RunData(stream)
     \/ RunError
     \/ \E code \in ExitCodes : RunClose(code)
  /\ UNCHANGED <<git, poll, project, procUi, gitUi>>

SpecRun == Init /\ [][RunNext]_vars

\* C18: run-command answers only once its process has terminated; a process
\* that ended with any exit code, zero or not, is answered with status 200,
\* that code and everything it wrote to stdout and to stderr; a process
\* that could not be started is answered with status 500 and exit_code -1,
\* which no terminated process is answered with.
C18_RunResolvesAtTermination ==
  /\ run.st \in {"none", "running", "failed"} => run.responses = <<>>
  /\ (run.st = "done" /\ run.started) =>
       run.responses = <<[status |-> 200, exit_code |-> run.code,
                          stdout |-> Concat(run.wrote["stdout"]),
                          stderr |-> Concat(run.wrote["stderr"])]>>
  /\ run.responses # <<>> =>
       /\ ~run.started <=> run.responses[1].status = 500
       /\ ~run.started <=> run.responses[1].exit_code = -1
       /\ run.started => run.responses[1].exit_code \in ExitCodes

C18_Witness ==
  /\ run.st = "done"
  /\ run.started
  /\ run.code = 1
  /\ Len(run.wrote["stdout"]) = MaxRunChunks
  /\ Len(run.wrote["stderr"]) = MaxRunChunks
  /\ run.responses[1].status = 200
  /\ run.responses[1].exit_code = 1
  /\ Len(run.responses[1].stdout) = MaxRunChunks

(***************************************************************************)
(* Part 3: the client.  handleRunScript starts a script with spawnCommand  *)
(* and then asks the server for the detected endpoint: checkUrl(1) after   *)
(* an initial delay, checkUrl(attempt + 1) after every answer without url. *)
(* Time passes in ticks; a timer never fires before its delay has elapsed. *)
(***************************************************************************)
\* setTimeout(() => checkUrl(1), 2000)
InitialDelay == 2000
\* setTimeout(() => checkUrl(attempt + 1), 1500)
PollInterval == 1500
\* if (attempt > 5) return
MaxAttempts == 5

\* the step of the clock
TickMs == PollInterval \div 3
\* time that a due timer is seen waiting for the event loop
MaxWait == InitialDelay

\* the url of a detected endpoint: "http://localhost:5"
FoundUrl == <<"S", "L", "d">>

\* what a GET /api/process-url/:pid request can come to: a url, no url
\* (or a response that is not ok), a rejected fetch
UrlOutcomes == {"url", "none", "rejected"}

\* addOutput(`$ npm run ...`); const { pid } = await spawnCommand(...)
HandleRunScript(k) ==
  /\ poll[k].st = "idle"
  /\ poll' = [poll EXCEPT ![k].st = "spawning"]
  /\ UNCHANGED <<procVars, git, project, procUi, gitUi>>

\* the spawnCommand promise settles: the entry is set and the first timer
\* armed, or the catch reports the error
SpawnResolved(k, ok) ==
  /\ poll[k].st = "spawning"
  /\ poll' = [poll EXCEPT ![k] =
                IF ok THEN [@ EXCEPT !.st = "armed", !.tracked = TRUE,
                                     !.attempt = 1, !.delay = InitialDelay,
                                     !.elapsed = 0]
                      ELSE [@ EXCEPT !.st = "failed", !.reported = @ + 1]]
  /\ UNCHANGED <<procVars, git, project, procUi, gitUi>>

\* the smaller of two numbers
Min(a, b) == IF a < b THEN a ELSE b

\* time passes for every armed timer
Tick ==
  /\ \E k \in Scripts : poll[k].st = "armed" /\ poll[k].elapsed < MaxWait
  /\ poll' = [k \in Scripts |->
                IF poll[k].st = "armed"
                  THEN [poll[k] EXCEPT !.elapsed = Min(@ + TickMs, MaxWait)]
                  ELSE poll[k]]
  /\ UNCHANGED <<procVars, git, project, procUi, gitUi>>

\* if (attempt > 5) return
GivesUp(attempt) == attempt > MaxAttempts

\* the timer fires: checkUrl(attempt) returns, or calls getProcessUrl(pid)
CheckUrl(k) ==
  /\ poll[k].st = "armed"
  /\ poll[k].elapsed >= poll[k].delay
  /\ poll' = [poll EXCEPT ![k] =
                IF GivesUp(@.attempt)
                  THEN [@ EXCEPT !.st = "stopped", !.delay = 0, !.elapsed = 0]
                  ELSE [@ EXCEPT !.st = "asking", !.asked = @ + 1,
                                 !.log = Append(@, [after |-> poll[k].elapsed,
                                                    delay |-> poll[k].delay]),
                                 !.delay = 0, !.elapsed = 0]]
  /\ UNCHANGED <<procVars, git, project, procUi, gitUi>>

\* setTimeout(() => checkUrl(attempt + 1), 1500)
Retry(p) ==
  [p EXCEPT !.st = "armed", !.attempt = @ + 1, !.delay = PollInterval, !.elapsed = 0]

\* a checkUrl that goes on asking after it has got a url
OnUrlKeepAsking(p, url) ==
  IF url # NoUrl THEN Retry([p EXCEPT !.url = url]) ELSE Retry(p)

\* if (url) { setRunningProcesses(... url ...); addOutput(url) } else setTimeout(...)
OnUrl(p, url) ==
  IF url # NoUrl THEN [p EXCEPT !.st = "stopped", !.url = url] ELSE Retry(p)

\* the getProcessUrl promise settles; the catch of a rejected one retries
UrlResolved(k, outcome) ==
  /\ poll[k].st = "asking"
  /\ poll' = [poll EXCEPT ![k] =
                IF outcome = "rejected" THEN Retry(@)
                ELSE OnUrl(@, IF outcome = "url" THEN FoundUrl ELSE NoUrl)]
  /\ UNCHANGED <<procVars, git, project, procUi, gitUi>>

PollNext ==
  \/ \E k \in Scripts : HandleRunScript(k)
  \/ \E k \in Scripts, ok \in BOOLEAN : SpawnResolved(k, ok)
  \/ Tick
  \/ \E k \in Scripts : CheckUrl(k)
  \/ \E k \in Scripts, outcome \in UrlOutcomes : UrlResolved(k, outcome)

\* time passes, a due timer is run by the event loop, and a request to the
\* local server is answered or rejected
PollFairness ==
  /\ WF_vars(Tick)
  /\ \A k \in Scripts : WF_vars(CheckUrl(k))
  /\ \A k \in Scripts : WF_vars(\E outcome \in UrlOutcomes : UrlResolved(k, outcome))

SpecPoll == Init /\ [][PollNext]_vars /\ PollFairness

\* what C19 says of the polling of one script in one state
PollingInBounds(k) ==
  LET p == poll[k]
  IN  /\ p.asked = Len(p.log)
      /\ p.asked <= MaxAttempts
      /\ \A i \in 1..Len(p.log) :
           /\ p.log[i].delay = (IF i = 1 THEN InitialDelay ELSE PollInterval)
           /\ p.log[i].after >= p.log[i].delay
      /\ p.url # NoUrl => p.st = "stopped"
      /\ p.st # "failed" => p.reported = 0

\* C19: after a spawn started from the UI no endpoint query is made before
\* the initial delay has elapsed, at most 5 are made, each later one a fixed
\* interval after the answer before it, none after a query has returned a
\* url, no error is reported, and the polling always stops in the end,
\* whatever the queries return.
C19_PollingStops ==
  /\ [](\A k \in Scripts : PollingInBounds(k))
  /\ \A k \in Scripts :
       (poll[k].st \in {"armed", "asking"}) ~> (poll[k].st = "stopped")

C19_Witness ==
  /\ poll["dev"].st = "stopped"
  /\ poll["dev"].asked = MaxAttempts
  /\ poll["dev"].url = NoUrl
  /\ poll["build"].st = "stopped"
  /\ poll["build"].asked = 2
  /\ poll["build"].url = FoundUrl

(***************************************************************************)
(* Part 4: detectProjectType, POST /api/create-project, and the scan of a  *)
(* project directory by GET /api/scan-library.                             *)
(***************************************************************************)
\* the files detectProjectType looks for, and setup.py
MarkerFiles ==
  {"package.json", "requirements.txt", "pyproject.toml", "setup.py",
   "go.mod", "Cargo.toml", "index.html"}

\* detectProjectType(dirPath)
detectProjectType(files) ==
  IF "package.json" \in files THEN "node"
  ELSE IF "requirements.txt" \in files \/ "pyproject.toml" \in files THEN "python"
  ELSE IF "go.mod" \in files THEN "go"
  ELSE IF "Cargo.toml" \in files THEN "rust"
  ELSE IF "index.html" \in files THEN "html"
  ELSE "generic"

\* projectType of a create-project request
ProjectTypes == {"node", "python", "html", "generic"}

\* the files create-project writes for a project type
FilesOf(projectType) ==
  IF projectType = "node"
    THEN {"package.json", "index.html", "src/main.js", "vite.config.js"}
  ELSE IF projectType = "python" THEN {"requirements.txt", "main.py", "README.md"}
  ELSE IF projectType = "html" THEN {"index.html", "style.css", "script.js"}
  ELSE {"README.md"}

\* a HEAD that names another branch: 'ref: refs/heads/master\n'
CreatedHeadMaster == <<"P", "master", "NL">>

\* fs.writeFileSync(path.join(gitDir, 'HEAD'), 'ref: refs/heads/main\n')
CreatedHead == <<"P", "main", "NL">>

\* fs.writeFileSync(path.join(gitDir, 'config'), '[core]\n\trepositoryformatversion = 0\n')
CreatedConfig == <<"G", "NL", "TAB", "x", "NL">>

\* directories that exist before the request: any marker files, with or
\* without a repository
ExistingDirs ==
  { [exists |-> TRUE, files |-> f, hasGit |-> g,
     head |-> IF g THEN BranchHead ELSE Unreadable,
     config |-> IF g THEN OriginConfig ELSE Unreadable] :
      f \in SUBSET MarkerFiles, g \in BOOLEAN }

ProjectInit ==
  /\ ProcInit
  /\ git = NoGit
  /\ poll = [k \in Scripts |-> NoPoll]
  /\ project \in {NoProject} \cup {[NoProject EXCEPT !.dir = d] : d \in ExistingDirs}
  /\ procUi = NoProcUi
  /\ gitUi = NoGitUi

\* POST /api/create-project: mkdirSync(projectPath, {recursive: true}), the
\* files of the type, the .git directory (mkdirSync(gitDir) throws when it
\* exists), then detectProjectType and res.json; the catch answers 500
CreateProject(projectType, initGit) ==
  /\ project.response.status = 0
  /\ LET old == project.dir
         filled == [old EXCEPT !.exists = TRUE, !.files = @ \cup FilesOf(projectType)]
         gitFails == initGit /\ old.hasGit
         made == IF initGit /\ ~gitFails
                   THEN [filled EXCEPT !.hasGit = TRUE,
                                       !.head = [ok |-> TRUE, text |-> CreatedHead],
                                       !.config = [ok |-> TRUE, text |-> CreatedConfig]]
                   ELSE filled
     IN  project' =
           [project EXCEPT
              !.dir = made,
              !.wasNew = ~old.exists,
              !.request = [projectType |-> projectType, initGit |-> initGit],
              !.response =
                 IF gitFails
                   THEN [@ EXCEPT !.status = 500]
                   ELSE [status |-> 200,
                         project_type |-> detectProjectType(made.files),
                         has_git |-> initGit,
                         remote_url |-> Null,
                         branch |-> IF initGit THEN <<"main">> ELSE Null]]
  /\ UNCHANGED <<procVars, git, poll, procUi, gitUi>>

\* GET /api/scan-library for one directory of the library:
\* detectProjectType(dirPath) and getGitInfo(dirPath)
ScanProject ==
  /\ project.dir.exists
  /\ project' = [project EXCEPT !.scanned = TRUE,
                                !.detected = detectProjectType(project.dir.files),
                                !.info = getGitInfo(project.dir)]
  /\ UNCHANGED <<procVars, git, poll, procUi, gitUi>>

ProjectNext ==
  \/ \E projectType \in ProjectTypes, initGit \in BOOLEAN :
       CreateProject(projectType, initGit)
  \/ ScanProject

SpecProject == ProjectInit /\ [][ProjectNext]_vars

(***************************************************************************)
(* Claims about project detection and creation.                            *)
(***************************************************************************)
\* the type the documented file signatures give: package.json for Node.js,
\* requirements.txt, pyproject.toml or setup.py for Python, go.mod for Go,
\* Cargo.toml for Rust, index.html for HTML
DocumentedType(files) ==
  IF "package.json" \in files THEN "node"
  ELSE IF {"requirements.txt", "pyproject.toml", "setup.py"} \cap files # {} THEN "python"
  ELSE IF "go.mod" \in files THEN "go"
  ELSE IF "Cargo.toml" \in files THEN "rust"
  ELSE IF "index.html" \in files THEN "html"
  ELSE "generic"

\* C21: a directory with requirements.txt, pyproject.toml or setup.py and
\* without package.json is detected as python, and in general the detected
\* type is the one the documented marker files give.
C21_DetectedByMarkers ==
  project.scanned => project.detected = DocumentedType(project.dir.files)

\* C30: after create-project with initGit = true in a directory that did
\* not exist, getGitInfo gives hasGit = true, branch 'main' and no remote
\* url, the same as has_git, branch and remote_url of the response; and a
\* requested type of node, python or html is the project_type answered.
C30_CreatedMetadataAgrees ==
  (project.wasNew /\ project.response.status # 0) =>
    /\ project.response.status = 200
    /\ (project.request.initGit /\ project.scanned) =>
         /\ project.info = [hasGit |-> TRUE, branch |-> <<"main">>, remoteUrl |-> Null]
         /\ project.response.has_git = project.info.hasGit
         /\ project.response.branch = project.info.branch
         /\ project.response.remote_url = project.info.remoteUrl
    /\ project.request.projectType \in {"node", "python", "html"} =>
         project.response.project_type = project.request.projectType

C30_Witness ==
  /\ project.wasNew
  /\ project.request = [projectType |-> "python", initGit |-> TRUE]
  /\ project.scanned
  /\ project.response.project_type = "python"
  /\ project.response.branch = <<"main">>
  /\ project.info.branch = <<"main">>
  /\ project.info.hasGit

(***************************************************************************)
(* Further claims about the metadata readers.                              *)
(***************************************************************************)
\* C22: for a directory with a repository, whatever its HEAD and config
\* contain and whether or not they can be read, branch and remote_url of
\* the git-status answer equal branch and remoteUrl of getGitInfo.
C22_SnapshotAgreesWithReader ==
  (git.repo.hasGit /\ git.answered /\ git.scanned) =>
    /\ git.branch = git.info.branch
    /\ git.remote_url = git.info.remoteUrl

\* C28: remote_url is never taken from a section other than
\* [remote "origin"]: it is what follows 'url = ' in a line whose nearest
\* section header above it is the origin header, and it is absent when the
\* origin section has no such line, whatever later sections contain.
C28_UrlOnlyFromOrigin ==
  LET lines == SplitLines(git.repo.config.text)
      trimmed(i) == Trim(lines[i])
      inOriginSection(j) ==
        \E i \in 1..(j - 1) :
          /\ trimmed(i) = OriginHeader
          /\ \A m \in (i + 1)..(j - 1) : trimmed(m) # <<"G">>
      originUrls == {j \in 1..Len(lines) :
                       StartsWith(trimmed(j), UrlKey) /\ inOriginSection(j)}
      allowed == {Null} \cup {Remainder(trimmed(j), Len(UrlKey)) : j \in originUrls}
  IN  (git.repo.hasGit /\ git.repo.config.ok) =>
        /\ git.scanned =>
             /\ git.info.remoteUrl \in allowed
             /\ originUrls = {} => git.info.remoteUrl = Null
        /\ git.answered =>
             /\ git.remote_url \in allowed
             /\ originUrls = {} => git.remote_url = Null

(***************************************************************************)
(* A further claim about POST /api/run-command.                            *)
(***************************************************************************)
\* C25: a run-command request gets exactly one response: whatever 'error'
\* and 'close' events its child emits, the listeners call res.json at most
\* once, and once the child has terminated or failed to start and its
\* events have been handled the request has its response.
C25_ExactlyOneResponse ==
  /\ run.sends <= 1
  /\ Len(run.responses) <= 1
  /\ run.st \in {"errored", "done"} => Len(run.responses) = 1

(***************************************************************************)
(* POST /api/spawn-command with one child whose output arrives in chunks   *)
(* cut at any place.                                                       *)
(***************************************************************************)
\* tokens in one chunk
MaxChunkLen == 2

ChunkTokens == {"S", "L", "d", "_"}

\* every chunk of at most MaxChunkLen tokens
SplitTexts == UNION { [1..n -> ChunkTokens] : n \in 1..MaxChunkLen }

ChunkNext ==
  /\ \/ /\ nSpawned = 0
        /\ \E cmd \in Commands, p \in PIDS : SpawnCommand(cmd, TRUE, p)
     \/ \E c \in Children, text \in SplitTexts : Data(c, text)
  /\ UNCHANGED <<git, poll, project, procUi, gitUi>>

SpecChunks == Init /\ [][ChunkNext]_vars

\* C24: the endpoint recorded for a process is the first match of the
\* pattern in the whole of its output (with 'http://' put before a bare
\* localhost:port or 127.0.0.1:port), however the output was cut into
\* chunks, and no endpoint when the whole output has no match.
C24_ChunkingIrrelevant ==
  \A c \in Children :
    child[c].st = "alive" =>
      LET whole == UrlMatch(child[c].output)
          endpoint == IF whole = <<>> THEN NoUrl ELSE NormalizeUrl(whole)
      IN  /\ child[c].url = endpoint
          /\ LookupUrl(runningProcesses, child[c].pid) = endpoint

(***************************************************************************)
(* A further claim about the process table.                                *)
(***************************************************************************)
\* C23: when a process id is reused, the entry under it belongs to the live
\* process that holds it: the table has that process's own detected
\* endpoint and command, or no entry while it has detected none; neither
\* the close nor a late chunk of an earlier holder of the id changes that.
C23_EntryBelongsToHolder ==
  \A b \in Children :
    child[b].st = "alive" =>
      runningProcesses[child[b].pid] =
        (IF child[b].url = NoUrl
           THEN NoEntry
           ELSE [url |-> child[b].url, command |-> child[b].command])

(***************************************************************************)
(* Part 5a: the client's gitStatus state.  The effect of selectedProject   *)
(* and refreshKey asks for the status of the selected project and stores   *)
(* whatever answer arrives: getGitStatus(path).then(setGitStatus).         *)
(***************************************************************************)
\* git-status requests the client makes
MaxGitRequests == 3

\* the projects of the library; "C" has no repository (has_git false)
UiProjects == {"A", "B", "C"}
HasGit(p) == p # "C"

\* the effect: if (selectedProject.has_git) getGitStatus(...).then(setGitStatus)
\* else setGitStatus(null)
GitEffect(ui, p) ==
  IF HasGit(p)
    THEN [ui EXCEPT !.pending = @ \cup {[id |-> ui.issued + 1, project |-> p]},
                    !.issued = @ + 1]
    ELSE [ui EXCEPT !.gitStatus = "null"]

\* onClick: setSelectedProject(project), then the effect runs
SelectProject(p) ==
  /\ p # gitUi.selected
  /\ gitUi.issued < MaxGitRequests
  /\ gitUi' = GitEffect([gitUi EXCEPT !.selected = p], p)
  /\ UNCHANGED <<procVars, git, poll, project, procUi>>

\* setRefreshKey(k => k + 1), then the effect runs for the same project
RefreshGit ==
  /\ gitUi.selected # "-"
  /\ gitUi.issued < MaxGitRequests
  /\ gitUi' = GitEffect(gitUi, gitUi.selected)
  /\ UNCHANGED <<procVars, git, poll, project, procUi>>

\* .then(setGitStatus): the answer of a request is stored
GitStatusResolved(r) ==
  /\ r \in gitUi.pending
  /\ gitUi' = [gitUi EXCEPT !.pending = @ \ {r}, !.gitStatus = r.project]
  /\ UNCHANGED <<procVars, git, poll, project, procUi>>

\* .catch((e) => addOutput(`Git error: ${e}`, 'error'))
GitStatusRejected(r) ==
  /\ r \in gitUi.pending
  /\ gitUi' = [gitUi EXCEPT !.pending = @ \ {r}, !.failed = TRUE]
  /\ UNCHANGED <<procVars, git, poll, project, procUi>>

GitRequests == [id : 1..MaxGitRequests, project : UiProjects]

GitUiNext ==
  \/ \E p \in UiProjects : SelectProject(p)
  \/ RefreshGit
  \/ \E r \in GitRequests : GitStatusResolved(r)
  \/ \E r \in GitRequests : GitStatusRejected(r)

SpecGitUi == Init /\ [][GitUiNext]_vars

\* C27: once every git-status request has been answered, the displayed
\* gitStatus is the status of the selected project, or null when that
\* project has no repository: an answer for a project selected earlier
\* never replaces the state of the newer selection.
C27_StatusOfSelected ==
  (gitUi.pending = {} /\ gitUi.selected # "-" /\ ~gitUi.failed) =>
    gitUi.gitStatus = (IF HasGit(gitUi.selected) THEN gitUi.selected ELSE "null")

(***************************************************************************)
(* Part 5b: the client's runningProcesses state for one script key.  The   *)
(* button of the script shows Stop while the key has an entry and Run      *)
(* otherwise.  Every request is one step at the server (the handler of     *)
(* Part 1) and a later step at the client when its answer arrives.         *)
(***************************************************************************)
\* the chunk a dev server writes: "xhttp://x "
UiText == <<"x", "S", "x", "_">>

\* the operating system hands out pids in increasing order and does not
\* wrap around while the page is open
FreshPid == nSpawned + 1

\* handleRunScript up to await spawnCommand(path, 'npm', ['run', scriptName]);
\* the command runs in a shell in an existing project directory
UiRun(p) ==
  /\ ~procUi.entry.present
  /\ p = FreshPid
  /\ SpawnCommand("npm run dev", TRUE, p)
  /\ procUi' = [procUi EXCEPT !.runs[nSpawned + 1] =
                                 [NoUiRun EXCEPT !.st = "spawning", !.pid = p],
                              !.removed = FALSE]
  /\ UNCHANGED <<git, poll, project, gitUi>>

\* setRunningProcesses(prev => ({...prev, [key]: { pid, script }}));
\* setTimeout(() => checkUrl(1), 2000)
UiSpawnResolved(r) ==
  /\ procUi.runs[r].st = "spawning"
  /\ procUi' = [procUi EXCEPT
                  !.entry = [NoUiEntry EXCEPT !.present = TRUE,
                                              !.pid = procUi.runs[r].pid,
                                              !.run = r],
                  !.runs[r].st = "waiting",
                  !.runs[r].attempt = 1,
                  !.removed = FALSE]
  /\ UNCHANGED <<procVars, git, poll, project, gitUi>>

\* checkUrl(attempt): if (attempt > 5) return; await getProcessUrl(pid).
\* The process-url handler changes nothing at the server; its answer is
\* LookupUrl of the table at the time it is served.
UiCheckUrl(r) ==
  /\ procUi.runs[r].st = "waiting"
  /\ procUi.runs[r].attempt <= MaxAttempts => Serving
  /\ procUi' =
       IF procUi.runs[r].attempt > MaxAttempts
         THEN [procUi EXCEPT !.runs[r].st = "done"]
         ELSE [procUi EXCEPT
                 !.runs[r].st = "asking",
                 !.runs[r].answer =
                    LookupUrl(runningProcesses, procUi.runs[r].pid)]
  /\ UNCHANGED <<procVars, git, poll, project, gitUi>>

\* if (url) setRunningProcesses(prev => ({...prev, [key]: {...prev[key], url}}))
\* else setTimeout(() => checkUrl(attempt + 1), 1500)
UiUrlResolved(r) ==
  /\ procUi.runs[r].st = "asking"
  /\ procUi' =
       IF procUi.runs[r].answer # NoUrl
         THEN [procUi EXCEPT !.entry.present = TRUE,
                             !.entry.url = procUi.runs[r].answer,
                             !.entry.urlRun = r,
                             !.runs[r].st = "done"]
         ELSE [procUi EXCEPT !.runs[r].st = "waiting",
                             !.runs[r].attempt = @ + 1]
  /\ UNCHANGED <<procVars, git, poll, project, gitUi>>

\* handleKillProcess up to await killProcess(process.pid); an entry without
\* a pid sends { pid: undefined }, for which process.kill throws
UiStop ==
  /\ procUi.entry.present
  /\ procUi.kill.st = "none"
  /\ IF procUi.entry.pid = NoPid
       THEN /\ Serving
            /\ lastOp' = [NoOp EXCEPT !.op = "kill", !.status = 500]
            /\ UNCHANGED <<serverUp, nSpawned, child, chunkLog,
                           runningProcesses, run>>
       ELSE KillProcess(procUi.entry.pid)
  /\ procUi' = [procUi EXCEPT !.kill =
                  [st |-> "await",
                   ok |-> procUi.entry.pid # NoPid
                            /\ KillDelivers(procUi.entry.pid)]]
  /\ UNCHANGED <<git, poll, project, gitUi>>

\* killProcess throws unless response.ok; on success delete next[key],
\* otherwise addOutput('Error stopping process') and the entry stays
UiKillResolved ==
  /\ procUi.kill.st = "await"
  /\ procUi' =
       IF procUi.kill.ok
         THEN [procUi EXCEPT !.kill = NoProcUi.kill, !.entry = NoUiEntry,
                             !.removed = TRUE]
         ELSE [procUi EXCEPT !.kill = NoProcUi.kill]
  /\ UNCHANGED <<procVars, git, poll, project, gitUi>>

\* the children write their banner, end and are closed while the client works
UiServer ==
  /\ \/ \E c \in Children : chunkLog[c] = <<>> /\ Data(c, UiText)
     \/ \E c \in Children : Exit(c)
     \/ \E c \in Children : Close(c)
  /\ UNCHANGED <<git, poll, project, procUi, gitUi>>

UiNext ==
  \/ \E p \in PIDS : UiRun(p)
  \/ \E r \in Children : UiSpawnResolved(r)
  \/ \E r \in Children : UiCheckUrl(r)
  \/ \E r \in Children : UiUrlResolved(r)
  \/ UiStop
  \/ UiKillResolved
  \/ UiServer

SpecUi == Init /\ [][UiNext]_vars

\* C26: after handleKillProcess has removed the key and until the script is
\* started again the key has no entry (an endpoint answer arriving after
\* the removal adds none), and the URL of an entry was found by the poll of
\* the run that created the entry, never by the poll of an earlier run.
C26_NoEntryAfterRemoval ==
  /\ procUi.removed => ~procUi.entry.present
  /\ procUi.entry.present => procUi.entry.urlRun \in {0, procUi.entry.run}

\* the answer of a kill request arrives for an entry whose process has
\* ended without having been signalled
StopAnsweredAfterOwnExit ==
  /\ procUi.kill.st = "await"
  /\ procUi'.kill.st = "none"
  /\ procUi.entry.run # 0
  /\ child[procUi.entry.run].st \in {"exited", "closed"}
  /\ ~child[procUi.entry.run].signalled

\* C29: when the process of a script started from the UI has exited on its
\* own, a Stop click on the script removes its entry from the client's
\* runningProcesses, so the script is not running and can be started again.
C29_StopRemovesExited ==
  [][StopAnsweredAfterOwnExit => ~procUi'.entry.present]_vars
====
